---- MODULE Spec2Model ----
(***************************************************************************)
(* Model of parse::Lexer (src/lexer.cpp) of the Mython interpreter.        *)
(*                                                                         *)
(* The input stream is a finite sequence of one-character strings fixed    *)
(* when the lexer is constructed.  pos is the index of the next character  *)
(* the stream will deliver (pos = Len(input) + 1 at end of input).         *)
(* A token is a record [type, value]; value is a sequence (characters of   *)
(* the lexeme for Id, String and Char, <<n>> for Number, <<>> otherwise).  *)
(***************************************************************************)
EXTENDS Integers, Sequences, FiniteSets, TLC

VARIABLES input, pos, current_token_, count_indent_, dedent_count_,
          is_start_line_, is_code_block_, status, history, eof_calls,
          fields, rt_in, rt_op, rt_out, rt_log

lexer_vars == <<input, pos, current_token_, count_indent_, dedent_count_,
                is_start_line_, is_code_block_, status, history, eof_calls>>

runtime_vars == <<fields, rt_in, rt_op, rt_out, rt_log>>

vars == <<input, pos, current_token_, count_indent_, dedent_count_,
          is_start_line_, is_code_block_, status, history, eof_calls,
          fields, rt_in, rt_op, rt_out, rt_log>>

(***************************************************************************)
(* Bounds of the model.                                                    *)
(***************************************************************************)
\* lines of an indentation input
MaxLines == 2
\* deepest indentation of a generated line, in units of two spaces
MaxLevel == 2
\* block openers in front of the generated lines
MaxDepth == 4
\* length of an input of the operator alphabet
MaxSymLen == 4
\* length of an input of the string-literal alphabet
MaxStrLen == 5
\* characters std::string can hold before its allocation fails
StrCapacity == 6
\* NextToken calls made after Eof was returned
MaxEofCalls == 2

(***************************************************************************)
(* Characters.                                                             *)
(***************************************************************************)
LF == "\n"
SP == " "
HASH == "#"
BACKSLASH == "\\"
DQUOTE == "\""
SQUOTE == "'"
TAB == "\t"
CR == "\r"
\* static_cast<char>(input_.get()) when the stream has no character left
EOFCHAR == "EOF"

Digits == {"0", "1", "2", "3", "4", "5", "6", "7", "8", "9"}

Alpha == {"a", "b", "c", "d", "e", "f", "g", "h", "i", "j", "k", "l", "m",
          "n", "o", "p", "q", "r", "s", "t", "u", "v", "w", "x", "y", "z",
          "A", "B", "C", "D", "E", "F", "G", "H", "I", "J", "K", "L", "M",
          "N", "O", "P", "Q", "R", "S", "T", "U", "V", "W", "X", "Y", "Z"}

DigitValue(c) ==
    CASE c = "0" -> 0 [] c = "1" -> 1 [] c = "2" -> 2 [] c = "3" -> 3
      [] c = "4" -> 4 [] c = "5" -> 5 [] c = "6" -> 6 [] c = "7" -> 7
      [] c = "8" -> 8 [] c = "9" -> 9

IntMax == 2147483647

(***************************************************************************)
(* Tokens.                                                                 *)
(***************************************************************************)
Token(type) == [type |-> type, value |-> <<>>]
Valued(type, value) == [type |-> type, value |-> value]

Keywords == {<<"c","l","a","s","s">>, <<"r","e","t","u","r","n">>,
             <<"i","f">>, <<"e","l","s","e">>, <<"d","e","f">>,
             <<"p","r","i","n","t">>, <<"a","n","d">>, <<"o","r">>,
             <<"n","o","t">>, <<"N","o","n","e">>, <<"T","r","u","e">>,
             <<"F","a","l","s","e">>}

\* the token ParseKeyword stores for a keyword lexeme
KeywordToken(str) ==
    CASE str = <<"c","l","a","s","s">> -> Token("Class")
      [] str = <<"r","e","t","u","r","n">> -> Token("Return")
      [] str = <<"i","f">> -> Token("If")
      [] str = <<"e","l","s","e">> -> Token("Else")
      [] str = <<"d","e","f">> -> Token("Def")
      [] str = <<"p","r","i","n","t">> -> Token("Print")
      [] str = <<"a","n","d">> -> Token("And")
      [] str = <<"o","r">> -> Token("Or")
      [] str = <<"n","o","t">> -> Token("Not")
      [] str = <<"N","o","n","e">> -> Token("None")
      [] str = <<"T","r","u","e">> -> Token("True")
      [] str = <<"F","a","l","s","e">> -> Token("False")

(***************************************************************************)
(* The stream.                                                             *)
(***************************************************************************)
\* input_.eof() || input_.peek() == EOF
AtEnd(s) == s.pos > Len(s.input_)

\* input_.peek()
Peek(s) == IF AtEnd(s) THEN EOFCHAR ELSE s.input_[s.pos]

\* input_.get(): the character, and the stream one further (not past the end)
Advance(s) == IF AtEnd(s) THEN s ELSE [s EXCEPT !.pos = @ + 1]

\* getline(input_, temp): drop everything up to and including the next
\* line terminator, or up to the end of input
RECURSIVE GetLine(_)
GetLine(s) ==
    IF AtEnd(s) THEN s
    ELSE IF s.input_[s.pos] = LF THEN [s EXCEPT !.pos = @ + 1]
    ELSE GetLine([s EXCEPT !.pos = @ + 1])

(***************************************************************************)
(* The lexer.  A lexer state s is the record of the fields of parse::Lexer *)
(* together with the stream position and the outcome of the running call.  *)
(***************************************************************************)
LexerState == [input_ |-> input, pos |-> pos, cur |-> current_token_, ci |-> count_indent_,
               dc |-> dedent_count_, sl |-> is_start_line_,
               cb |-> is_code_block_, st |-> status]

\* std::stoi of a non-empty digit string, most significant digit first
RECURSIVE StoI(_, _)
StoI(digits, acc) ==
    IF digits = <<>> THEN acc
    ELSE StoI(Tail(digits), 10 * acc + DigitValue(Head(digits)))

\* the digits ParseNumber's loop collects
RECURSIVE ReadDigits(_, _)
ReadDigits(s, parsed_num) ==
    IF Peek(s) \in Digits
    THEN ReadDigits(Advance(s), Append(parsed_num, Peek(s)))
    ELSE [s |-> s, str |-> parsed_num]

ParseNumber(s) ==
    LET r == ReadDigits(s, <<>>)
        n == StoI(r.str, 0)
    IN  IF n > IntMax
        THEN [r.s EXCEPT !.st = "out_of_range"]
        ELSE [r.s EXCEPT !.cur = Valued("Number", <<n>>)]

\* the character a backslash escape appends; ch is the backslash itself
Escaped(ch, escaped_char) ==
    CASE escaped_char = "n" -> LF
      [] escaped_char = "t" -> TAB
      [] escaped_char = "r" -> CR
      [] escaped_char = DQUOTE -> DQUOTE
      [] escaped_char = SQUOTE -> SQUOTE
      [] escaped_char = BACKSLASH -> BACKSLASH
      [] OTHER -> ch

\* the loop of ParseString; str is the local string s of the source
RECURSIVE StringLoop(_, _, _)
StringLoop(s, quote, str) ==
    LET ch == Peek(s)
        s1 == Advance(s)
    IN  IF ch = quote THEN [s1 EXCEPT !.cur = Valued("String", str)]
        ELSE IF Len(str) >= StrCapacity THEN [s1 EXCEPT !.st = "bad_alloc"]
        ELSE IF ch = BACKSLASH
        THEN StringLoop(Advance(s1), quote, Append(str, Escaped(ch, Peek(s1))))
        ELSE StringLoop(s1, quote, Append(str, ch))

ParseString(s, quote) == StringLoop(s, quote, <<>>)

\* the characters ParseIdentifier's loop collects
RECURSIVE ReadWord(_, _)
ReadWord(s, str) ==
    IF Peek(s) \in Alpha \cup Digits \cup {"_"}
    THEN ReadWord(Advance(s), Append(str, Peek(s)))
    ELSE [s |-> s, str |-> str]

ParseKeyword(str) == str \in Keywords

ParseIdentifier(s) ==
    LET r == ReadWord(s, <<>>)
    IN  IF ParseKeyword(r.str)
        THEN [r.s EXCEPT !.cur = KeywordToken(r.str)]
        ELSE [r.s EXCEPT !.cur = Valued("Id", r.str)]

\* the pair token stored, the second character left in the stream
PairOrChar_NoGet(s1, ch, pair) ==
    IF Peek(s1) = "="
    THEN [s1 EXCEPT !.cur = Token(pair)]
    ELSE [s1 EXCEPT !.cur = Valued("Char", <<ch>>)]

\* one branch of ParseSymbol for a character that may start a pair
PairOrChar(s1, ch, pair) ==
    IF Peek(s1) = "="
    THEN [Advance(s1) EXCEPT !.cur = Token(pair)]
    ELSE [s1 EXCEPT !.cur = Valued("Char", <<ch>>)]

ParseSymbol(s) ==
    LET ch == Peek(s)
        s1 == Advance(s)
    IN  IF ch = "=" THEN PairOrChar(s1, ch, "Eq")
        ELSE IF ch = ">" THEN PairOrChar(s1, ch, "GreaterOrEq")
        ELSE IF ch = "<" THEN PairOrChar(s1, ch, "LessOrEq")
        ELSE IF ch = "!"
        THEN IF Peek(s1) = "="
             THEN [Advance(s1) EXCEPT !.cur = Token("NotEq")]
             ELSE s1
        ELSE [s1 EXCEPT !.cur = Valued("Char", <<ch>>)]

\* the loop of ParseIndent that counts leading spaces
RECURSIVE CountSpaces(_, _)
CountSpaces(s, count_spaces) ==
    IF Peek(s) = SP THEN CountSpaces(Advance(s), count_spaces + 1)
    ELSE [s |-> s, n |-> count_spaces]

\* the loop of ParseIndent that queues the further dedents
RECURSIVE QueueDedents(_, _)
QueueDedents(difference, dc) ==
    IF difference > 2 THEN QueueDedents(difference - 2, dc + 1) ELSE dc

RECURSIVE ParseToken(_)
RECURSIVE ParseIndent(_)

ParseIndent(s) ==
    IF s.cur.type # "Newline" THEN ParseToken(Advance(s))
    ELSE LET r == CountSpaces(s, 0)
             count_spaces == r.n
         IN  IF count_spaces = s.ci
             THEN ParseToken([r.s EXCEPT !.cb = TRUE])
             ELSE IF count_spaces - s.ci = 2
             THEN [r.s EXCEPT !.ci = @ + 2, !.cur = Token("Indent")]
             ELSE [r.s EXCEPT !.cur = Token("Dedent"), !.ci = @ - 2,
                              !.dc = QueueDedents(s.ci - count_spaces, @)]

\* a guard that never holds
IsEof_Never(token) == FALSE

\* current_token_ == token_type::Eof{}
IsEof(token) == token.type = "Eof"

ParseAtEnd_KeepLevel(s) ==
    IF s.ci > 0
    THEN [s EXCEPT !.cur = Token("Dedent")]
    ELSE IF s.cur.type # "Newline" /\ s.cur.type # "Dedent"
    THEN [s EXCEPT !.cur = Token("Newline")]
    ELSE [s EXCEPT !.cur = Token("Eof")]

\* ParseToken at end of input
ParseAtEnd(s) ==
    IF s.ci > 0
    THEN [s EXCEPT !.cur = Token("Dedent"), !.ci = @ - 2]
    ELSE IF s.cur.type # "Newline" /\ s.cur.type # "Dedent"
    THEN [s EXCEPT !.cur = Token("Newline")]
    ELSE [s EXCEPT !.cur = Token("Eof")]

\* ParseToken from the character ch it has just read (s1 is past ch, s0 is
\* the stream with ch put back) once the comment, blank-line and dedent
\* cases are excluded
Dispatch(s0, s1, ch) ==
    LET r == IF ch = SQUOTE \/ ch = DQUOTE THEN ParseString(s1, ch)
             ELSE IF ch \in Digits THEN ParseNumber(s0)
             ELSE IF ch \in Alpha \/ ch = "_" THEN ParseIdentifier(s0)
             ELSE IF ch = SP THEN ParseIndent(s0)
             ELSE ParseSymbol(s0)
    IN  IF r.st = "ok" THEN [r EXCEPT !.sl = FALSE] ELSE r

ParseToken(s) ==
    IF s.st # "ok" THEN s
    ELSE IF IsEof(s.cur) THEN s
    ELSE IF AtEnd(s) THEN ParseAtEnd(s)
    ELSE IF s.dc > 0
    THEN [s EXCEPT !.dc = @ - 1, !.ci = @ - 2, !.cur = Token("Dedent")]
    ELSE LET ch == Peek(s)
             s1 == Advance(s)
         IN  IF ch = HASH
             THEN LET s2 == [GetLine(s1) EXCEPT !.cur = Token("Newline")]
                  IN  IF s2.sl THEN ParseToken(s2) ELSE s2
             ELSE IF ch = LF /\ s.cur.type = "Newline"
             THEN ParseToken([s1 EXCEPT !.sl = TRUE])
             ELSE IF s.sl /\ s.ci > 0 /\ ch # SP /\ ~s.cb
             THEN [s EXCEPT !.cur = Token("Dedent"), !.ci = @ - 2]
             ELSE IF ch = LF
             THEN [s1 EXCEPT !.cb = FALSE, !.cur = Token("Newline"),
                             !.sl = TRUE]
             ELSE Dispatch([s EXCEPT !.cb = FALSE],
                           [s1 EXCEPT !.cb = FALSE], ch)

\* the constructor's loop over leading line terminators
RECURSIVE SkipLeadingNewlines(_)
SkipLeadingNewlines(s) ==
    IF Peek(s) = LF THEN SkipLeadingNewlines(Advance(s)) ELSE s

\* the fields of a Lexer before its constructor's body runs
NewLexer(in) == [input_ |-> in, pos |-> 1, cur |-> Valued("Number", <<0>>),
                 ci |-> 0, dc |-> 0, sl |-> FALSE, cb |-> FALSE, st |-> "ok"]

\* Lexer::Lexer
Construct(in) == ParseToken(SkipLeadingNewlines(NewLexer(in)))

(***************************************************************************)
(* Inputs.                                                                 *)
(***************************************************************************)
RECURSIVE Spaces(_)
Spaces(n) == IF n = 0 THEN <<>> ELSE <<SP>> \o Spaces(n - 1)

\* what a line holds after its leading spaces: a name, a name followed by
\* a space, a name followed by a comment, a comment alone, nothing
LineBodies == {<<"x">>, <<"x", SP>>, <<"x", HASH>>, <<HASH>>, <<>>}

Lines == {Spaces(2 * l) \o b : l \in 0..MaxLevel, b \in LineBodies}

\* the texts of n lines, a line terminator between two lines
RECURSIVE Texts(_)
Texts(n) ==
    IF n = 1 THEN Lines
    ELSE {p \o <<LF>> \o l : p \in Texts(n - 1), l \in Lines}

\* the opening lines of d nested blocks: a name at each level 0 .. d - 1,
\* every line terminated
RECURSIVE Openers(_)
Openers(d) ==
    IF d = 0 THEN <<>>
    ELSE Openers(d - 1) \o Spaces(2 * (d - 1)) \o <<"x", LF>>

\* programs: 1 to MaxDepth block openers, then up to MaxLines lines (the
\* program ends in a line terminator when its last line is empty); a
\* program of one opener also with blank lines in front
IndentInputs ==
    UNION {{lead \o Openers(d) \o p :
                lead \in IF d = 1 THEN {<<>>, <<LF, LF>>} ELSE {<<>>},
                p \in UNION {Texts(n) : n \in 1..MaxLines}} : d \in 1..MaxDepth}

RECURSIVE Strings(_, _)
Strings(alphabet, n) ==
    IF n = 0 THEN {<<>>}
    ELSE LET shorter == Strings(alphabet, n - 1)
         IN  shorter \cup {Append(p, c) : p \in shorter, c \in alphabet}

SymAlphabet == {"=", "<", ">", "!", "+", "x", SP}
SymInputs == Strings(SymAlphabet, MaxSymLen)

StrAlphabet == {DQUOTE, SQUOTE, BACKSLASH, "n", "t", "r", "q"}
StrInputs == Strings(StrAlphabet, MaxStrLen)

(***************************************************************************)
(* The runtime (src/runtime.cpp).                                          *)
(*                                                                         *)
(* An ObjectHolder is a record [kind, flag, number, text, ref]: kind is    *)
(* the dynamic type of the object it points to ("None" for an empty        *)
(* holder), flag the payload of a Bool, number that of a Number, text that *)
(* of a String (a sequence of characters), ref the name of a Class or the  *)
(* identity of a ClassInstance.  A pointer is a sequence: <<>> is nullptr, *)
(* <<x>> points to x.  A Closure is a function from names to holders.  An  *)
(* operation takes the world w = [fields, log] it runs in (the fields of   *)
(* every instance and the record of what ran so far) and yields [w, out]:  *)
(* the world it leaves and its outcome, [kind |-> "ok"] with the bool      *)
(* (value), the holder or the pointer (found) returned, [kind |-> "error"] *)
(* with the message of the std::runtime_error thrown, or                   *)
(* [kind |-> "crash"].                                                     *)
(***************************************************************************)
\* largest magnitude of a Number operand
MaxNumber == 1
\* longest String operand
MaxText == 2
\* most actual arguments of a Call
MaxArgs == 2

nullptr == <<>>

AddressOf(x) == <<x>>

Deref(p) == p[1]

\* ObjectHolder::None
None ==
    [kind |-> "None", flag |-> FALSE, number |-> 0, text |-> <<>>, ref |-> ""]

\* ObjectHolder::Own<Bool>
OwnBool(value) == [None EXCEPT !.kind = "Bool", !.flag = value]

\* ObjectHolder::Own<Number>
OwnNumber(value) == [None EXCEPT !.kind = "Number", !.number = value]

\* ObjectHolder::Own<String>
OwnString(value) == [None EXCEPT !.kind = "String", !.text = value]

\* a holder of the Class object called name
OwnClass(name) == [None EXCEPT !.kind = "Class", !.ref = name]

\* ObjectHolder::Share
Share(id) == [None EXCEPT !.kind = "ClassInstance", !.ref = id]

\* ObjectHolder::operator bool
HolderBool(object) == object.kind # "None"

\* ObjectHolder::TryAs<T>: not null
TryAs(T, object) == object.kind = T

\* the outcome of an operation that returns nothing
Done == [kind |-> "ok", value |-> FALSE, holder |-> None, found |-> nullptr,
         what |-> <<>>]

\* an operation returns the bool value
Returns(w, value) == [w |-> w, out |-> [Done EXCEPT !.value = value]]

\* an operation returns a holder
ReturnsHolder(w, holder) == [w |-> w, out |-> [Done EXCEPT !.holder = holder]]

\* an operation returns a pointer
ReturnsPointer(w, found) == [w |-> w, out |-> [Done EXCEPT !.found = found]]

\* an operation throws std::runtime_error(what)
Throws(w, what) ==
    [w |-> w, out |-> [Done EXCEPT !.kind = "error", !.what = what]]

\* an operation the process does not survive
Crashes(w) == [w |-> w, out |-> [Done EXCEPT !.kind = "crash"]]

\* Closure{}
EmptyClosure == [name \in {} |-> None]

\* the world once one more thing has run: the dispatch of method to
\* instance self ("Call"), the body of method run in closure ("Execute"), a
\* null pointer dereferenced ("NullDeref"), the bool the result of method
\* was taken for ("Result")
Logged(w, ev, method, self, closure, value) ==
    [w EXCEPT !.log = Append(@, [ev |-> ev, method |-> method, self |-> self,
                                 closure |-> closure, value |-> value])]

\* the int a Bool converts to
BoolToInt(b) == IF b THEN 1 ELSE 0

\* the code of a character
CharCode(c) == CASE c = "a" -> 97 [] c = "b" -> 98

\* std::string's operator<
RECURSIVE StringLess(_, _)
StringLess(l, r) ==
    IF r = <<>> THEN FALSE
    ELSE IF l = <<>> THEN TRUE
    ELSE IF CharCode(Head(l)) # CharCode(Head(r))
    THEN CharCode(Head(l)) < CharCode(Head(r))
    ELSE StringLess(Tail(l), Tail(r))

IsTrue_Positive(object) ==
    IF ~HolderBool(object) THEN FALSE
    ELSE IF TryAs("Bool", object) THEN object.flag
    ELSE IF TryAs("Number", object) THEN object.number > 0
    ELSE IF TryAs("String", object) THEN object.text # <<>>
    ELSE FALSE

\* IsTrue: a Number converts to bool
IsTrue(object) ==
    IF ~HolderBool(object) THEN FALSE
    ELSE IF TryAs("Bool", object) THEN object.flag
    ELSE IF TryAs("Number", object) THEN object.number # 0
    ELSE IF TryAs("String", object) THEN object.text # <<>>
    ELSE FALSE

(***************************************************************************)
(* Classes.  The body of a method is one of four statements: return a      *)
(* constant, return a variable of the scope, return a field of self, or    *)
(* return a field of self after replacing it by its negation.              *)
(***************************************************************************)
Method(name, formal_params, body) ==
    [name |-> name, formal_params |-> formal_params, body |-> body]

Return(value) == [op |-> "Return", name |-> "", value |-> value]

ReturnVar(name) == [op |-> "ReturnVar", name |-> name, value |-> None]

ReturnField(name) == [op |-> "ReturnField", name |-> name, value |-> None]

Toggle(name) == [op |-> "Toggle", name |-> name, value |-> None]

\* Class::Class: methods_ is the list as given
NewClass(name, methods, parent) ==
    [name_ |-> name, methods_ |-> methods, parent_ |-> parent]

ClassNames == {"Base", "Mid", "Leaf", "Flip", "Cmp"}

\* the methods each class declares, in declaration order
Declared(name) ==
    CASE name = "Base" ->
           <<Method("__lt__", <<"other">>, ReturnVar("other")),
             Method("__eq__", <<"other">>, Return(OwnBool(FALSE))),
             Method("get", <<"a", "a">>, ReturnVar("a")),
             Method("add", <<"x">>, Return(None)),
             Method("add", <<>>, Return(OwnNumber(1)))>>
      [] name = "Mid" ->
           <<Method("__eq__", <<"a", "b">>, Return(OwnBool(TRUE))),
             Method("me", <<"self">>, ReturnVar("self"))>>
      [] name = "Leaf" ->
           <<Method("add", <<>>, Return(OwnNumber(0)))>>
      [] name = "Flip" ->
           <<Method("__lt__", <<"other">>, Toggle("flag")),
             Method("__eq__", <<"other">>, ReturnField("flag"))>>
      [] name = "Cmp" ->
           <<Method("__eq__", <<"other">>, ReturnVar("other")),
             Method("__lt__", <<"other">>, Return(OwnBool(FALSE)))>>

\* the class each class derives from
ParentOf(name) ==
    CASE name = "Mid" -> AddressOf("Base")
      [] name = "Leaf" -> AddressOf("Mid")
      [] OTHER -> nullptr

\* the classes of the program
ClassTable ==
    [name \in ClassNames |->
         NewClass(name, Declared(name), ParentOf(name))]

\* std::find_if over a method list: the index of the first method called
\* name, 0 for end()
RECURSIVE FindIf(_, _, _)
FindIf(methods, name, i) ==
    IF i > Len(methods) THEN 0
    ELSE IF methods[i].name = name THEN i
    ELSE FindIf(methods, name, i + 1)

GetMethod_FullChain(cls, name) ==
    LET found_in_class == FindIf(cls.methods_, name, 1)
    IN  IF found_in_class # 0 THEN AddressOf(cls.methods_[found_in_class])
        ELSE IF cls.parent_ = nullptr THEN nullptr
        ELSE LET parent == ClassTable[Deref(cls.parent_)]
                 found_in_parents == FindIf(parent.methods_, name, 1)
             IN  IF found_in_parents # 0
                 THEN AddressOf(parent.methods_[found_in_parents])
                 ELSE IF parent.parent_ = nullptr THEN nullptr
                 ELSE LET grand == ClassTable[Deref(parent.parent_)]
                          found == FindIf(grand.methods_, name, 1)
                      IN  IF found # 0 THEN AddressOf(grand.methods_[found])
                          ELSE nullptr

\* Class::GetMethod
GetMethod(cls, name) ==
    LET found_in_class == FindIf(cls.methods_, name, 1)
    IN  IF found_in_class # 0 THEN AddressOf(cls.methods_[found_in_class])
        ELSE IF cls.parent_ = nullptr THEN nullptr
        ELSE LET parent == ClassTable[Deref(cls.parent_)]
                 found_in_parents == FindIf(parent.methods_, name, 1)
             IN  IF found_in_parents # 0
                 THEN AddressOf(parent.methods_[found_in_parents])
                 ELSE nullptr

\* Class::GetName
GetName(cls) == cls.name_

(***************************************************************************)
(* Instances: one of each class.                                           *)
(***************************************************************************)
InstanceIds == {"base", "mid", "leaf", "flip", "cmp"}

\* ClassInstance::cls_
cls_(id) ==
    ClassTable[CASE id = "base" -> "Base" [] id = "mid" -> "Mid"
                 [] id = "leaf" -> "Leaf" [] id = "flip" -> "Flip"
                 [] id = "cmp" -> "Cmp"]

HasMethod_AtMost(id, method, argument_count) ==
    LET found_method == GetMethod(cls_(id), method)
    IN  IF found_method = nullptr THEN FALSE
        ELSE Len(Deref(found_method).formal_params) <= argument_count

\* ClassInstance::HasMethod
HasMethod(id, method, argument_count) ==
    LET found_method == GetMethod(cls_(id), method)
    IN  IF found_method = nullptr THEN FALSE
        ELSE Len(Deref(found_method).formal_params) = argument_count

\* Closure::emplace: a key already there keeps its holder
Emplace(closure, key, holder) ==
    IF key \in DOMAIN closure THEN closure
    ELSE [name \in DOMAIN closure \cup {key} |->
              IF name = key THEN holder ELSE closure[name]]

\* Closure::operator[] assigned to
Store(closure, key, holder) ==
    [name \in DOMAIN closure \cup {key} |->
         IF name = key THEN holder ELSE closure[name]]

\* the loop of ClassInstance::Call over the formal parameters, from the i-th
RECURSIVE EmplaceParams(_, _, _, _)
EmplaceParams(closure, formal_params, actual_args, i) ==
    IF i > Len(formal_params) THEN closure
    ELSE EmplaceParams(Emplace(closure, formal_params[i], actual_args[i]),
                       formal_params, actual_args, i + 1)

\* Executable::Execute of a method body
Execute(body, closure, w) ==
    LET self == closure["self"].ref
    IN  CASE body.op = "Return" -> ReturnsHolder(w, body.value)
          [] body.op = "ReturnVar" ->
               IF body.name \in DOMAIN closure
               THEN ReturnsHolder(w, closure[body.name])
               ELSE Throws(w, <<"Variable ", body.name, " not found">>)
          [] body.op = "ReturnField" ->
               IF body.name \in DOMAIN w.fields[self]
               THEN ReturnsHolder(w, w.fields[self][body.name])
               ELSE Throws(w, <<"Variable ", body.name, " not found">>)
          [] body.op = "Toggle" ->
               IF body.name \in DOMAIN w.fields[self]
               THEN LET old == w.fields[self][body.name]
                    IN  ReturnsHolder([w EXCEPT !.fields[self] =
                                           Store(@, body.name,
                                                 OwnBool(~IsTrue(old)))],
                                      old)
               ELSE Throws(w, <<"Variable ", body.name, " not found">>)

\* ClassInstance::Call
Call(id, method, actual_args, w) ==
    LET w1 == Logged(w, "Call", method, id, EmptyClosure, FALSE)
    IN  IF ~HasMethod(id, method, Len(actual_args))
        THEN Throws(w1, <<"There is no method ", method, "in the class ",
                          GetName(cls_(id))>>)
        ELSE LET found_method == Deref(GetMethod(cls_(id), method))
                 closure == EmplaceParams(
                                Emplace(EmptyClosure, "self", Share(id)),
                                found_method.formal_params, actual_args, 1)
             IN  Execute(found_method.body, closure,
                         Logged(w1, "Execute", method, id, closure, FALSE))

(***************************************************************************)
(* Comparison.  ub tells, for __eq__ and for __lt__, what dereferencing    *)
(* the null pointer TryAs<Bool> returned for a result that is no Bool      *)
(* comes to: "crash", or the bool read, "true" or "false".                 *)
(***************************************************************************)
TypeChecking(T, lhs, rhs) == TryAs(T, lhs) /\ TryAs(T, rhs)

\* LessImpl<T>
LessImpl(T, lhs, rhs) ==
    CASE T = "Bool" -> BoolToInt(lhs.flag) < BoolToInt(rhs.flag)
      [] T = "Number" -> lhs.number < rhs.number
      [] T = "String" -> StringLess(lhs.text, rhs.text)

EqualImpl_AsLess(T, lhs, rhs) == LessImpl(T, lhs, rhs)

\* EqualImpl<T>
EqualImpl(T, lhs, rhs) ==
    CASE T = "Bool" -> lhs.flag = rhs.flag
      [] T = "Number" -> lhs.number = rhs.number
      [] T = "String" -> lhs.text = rhs.text

\* result.TryAs<Bool>()->GetValue() on what a Call of method came to
BoolValue(r, method, ub) ==
    IF r.out.kind # "ok" THEN r
    ELSE IF TryAs("Bool", r.out.holder)
    THEN Returns(Logged(r.w, "Result", method, "", EmptyClosure,
                        r.out.holder.flag),
                 r.out.holder.flag)
    ELSE LET w1 == Logged(r.w, "NullDeref", method, "", EmptyClosure, FALSE)
         IN  IF ub[method] = "crash" THEN Crashes(w1)
             ELSE Returns(Logged(w1, "Result", method, "", EmptyClosure,
                                 ub[method] = "true"),
                          ub[method] = "true")

Equal(lhs, rhs, w, ub) ==
    IF ~HolderBool(lhs) /\ ~HolderBool(rhs) THEN Returns(w, TRUE)
    ELSE IF TypeChecking("Bool", lhs, rhs)
    THEN Returns(w, EqualImpl("Bool", lhs, rhs))
    ELSE IF TypeChecking("Number", lhs, rhs)
    THEN Returns(w, EqualImpl("Number", lhs, rhs))
    ELSE IF TypeChecking("String", lhs, rhs)
    THEN Returns(w, EqualImpl("String", lhs, rhs))
    ELSE IF TryAs("ClassInstance", lhs)
    THEN BoolValue(Call(lhs.ref, "__eq__", <<rhs>>, w), "__eq__", ub)
    ELSE Throws(w, <<"Cannot compare objects for equality">>)

Less(lhs, rhs, w, ub) ==
    IF ~HolderBool(lhs) \/ ~HolderBool(rhs)
    THEN Throws(w, <<"Cannot compare objects for less">>)
    ELSE IF TypeChecking("Bool", lhs, rhs)
    THEN Returns(w, LessImpl("Bool", lhs, rhs))
    ELSE IF TypeChecking("Number", lhs, rhs)
    THEN Returns(w, LessImpl("Number", lhs, rhs))
    ELSE IF TypeChecking("String", lhs, rhs)
    THEN Returns(w, LessImpl("String", lhs, rhs))
    ELSE IF TryAs("ClassInstance", lhs)
    THEN BoolValue(Call(lhs.ref, "__lt__", <<rhs>>, w), "__lt__", ub)
    ELSE Throws(w, <<"Cannot compare objects for less">>)

\* !r, an exception or a crash passing through
Not(r) == IF r.out.kind # "ok" THEN r ELSE Returns(r.w, ~r.out.value)

NotEqual(lhs, rhs, w, ub) == Not(Equal(lhs, rhs, w, ub))

Greater_NotLess(lhs, rhs, w, ub) == Not(Less(lhs, rhs, w, ub))

\* !Less && !Equal: Equal runs when Less returned false
Greater(lhs, rhs, w, ub) ==
    LET l == Less(lhs, rhs, w, ub)
    IN  IF l.out.kind # "ok" THEN l
        ELSE IF l.out.value THEN Returns(l.w, FALSE)
        ELSE Not(Equal(lhs, rhs, l.w, ub))

LessOrEqual_EqualFirst(lhs, rhs, w, ub) ==
    LET e == Equal(lhs, rhs, w, ub)
    IN  IF e.out.kind # "ok" THEN e
        ELSE IF e.out.value THEN Returns(e.w, TRUE)
        ELSE Less(lhs, rhs, e.w, ub)

\* Less || Equal: Equal runs when Less returned false
LessOrEqual(lhs, rhs, w, ub) ==
    LET l == Less(lhs, rhs, w, ub)
    IN  IF l.out.kind # "ok" THEN l
        ELSE IF l.out.value THEN Returns(l.w, TRUE)
        ELSE Equal(lhs, rhs, l.w, ub)

GreaterOrEqual(lhs, rhs, w, ub) == Not(Less(lhs, rhs, w, ub))

(***************************************************************************)
(* Operands of the runtime operations.                                     *)
(***************************************************************************)
Numbers == (-MaxNumber)..MaxNumber

TextAlphabet == {"a", "b"}

Holders ==
    {None} \cup {OwnBool(b) : b \in BOOLEAN}
           \cup {OwnNumber(n) : n \in Numbers}
           \cup {OwnString(s) : s \in Strings(TextAlphabet, MaxText)}
           \cup {OwnClass(c) : c \in {"Base", "Flip"}}
           \cup {Share(id) : id \in InstanceIds}

MethodNames == {"__lt__", "__eq__", "get", "add", "me", "run"}

ArgValues == {None, OwnBool(TRUE), OwnNumber(1)}

ArgLists == Strings(ArgValues, MaxArgs)

\* the instances, names and holders Fields() is written through
FieldOwners == {"flip"}

FieldNames == {"flag"}

FieldValues == {OwnBool(b) : b \in BOOLEAN}

UBChoices == [{"__eq__", "__lt__"} -> {"crash", "true", "false"}]

\* what the operations of a run are applied to: the operands of IsTrue (lhs)
\* and of the comparisons, the receiver, method name and arguments of
\* GetMethod, HasMethod and Call
Operands(lhs, rhs, self, method, actual_args) ==
    [lhs |-> lhs, rhs |-> rhs, self |-> self, method |-> method,
     actual_args |-> actual_args]

Idle == Operands(None, None, "base", "run", <<>>)

RuntimeInputs ==
    {Operands(lhs, rhs, Idle.self, Idle.method, Idle.actual_args) :
         lhs \in Holders, rhs \in Holders}
    \cup {Operands(None, None, self, method, actual_args) :
              self \in InstanceIds, method \in MethodNames,
              actual_args \in ArgLists}

(***************************************************************************)
(* The state machine: a lexer constructed over an input, then NextToken.   *)
(***************************************************************************)
\* what a call returned, with the indentation level it left
Returned(s) == [tok |-> s.cur, ci |-> s.ci]

\* the runtime before any operation on the operands in: every instance as
\* its constructor leaves it, nothing run
RuntimeStart(in) ==
    /\ fields = [id \in InstanceIds |-> EmptyClosure]
    /\ rt_in = in
    /\ rt_op = [name |-> "none", argument_count |-> 0]
    /\ rt_out = Done
    /\ rt_log = <<>>

\* the state once the constructor has run over the chosen input
Constructed(in) ==
    LET s == Construct(in)
    IN  /\ input = in
        /\ pos = s.pos
        /\ current_token_ = s.cur
        /\ count_indent_ = s.ci
        /\ dedent_count_ = s.dc
        /\ is_start_line_ = s.sl
        /\ is_code_block_ = s.cb
        /\ status = s.st
        /\ history = IF s.st = "ok" THEN <<Returned(s)>> ELSE <<>>
        /\ eof_calls = 0

Init == \E in \in IndentInputs : Constructed(in) /\ RuntimeStart(Idle)

InitSym == \E in \in SymInputs : Constructed(in) /\ RuntimeStart(Idle)

InitStr == \E in \in StrInputs : Constructed(in) /\ RuntimeStart(Idle)

\* Lexer::NextToken
NextToken ==
    /\ status = "ok"
    /\ current_token_.type = "Eof" => eof_calls < MaxEofCalls
    /\ LET s == ParseToken(LexerState)
       IN  /\ pos' = s.pos
           /\ current_token_' = s.cur
           /\ count_indent_' = s.ci
           /\ dedent_count_' = s.dc
           /\ is_start_line_' = s.sl
           /\ is_code_block_' = s.cb
           /\ status' = s.st
           /\ history' = IF s.st = "ok" THEN Append(history, Returned(s))
                         ELSE history
    /\ eof_calls' = IF current_token_.type = "Eof" THEN eof_calls + 1
                    ELSE eof_calls
    /\ UNCHANGED input
    /\ UNCHANGED runtime_vars

Next == NextToken

Spec == Init /\ [][Next]_vars

SpecSym == InitSym /\ [][Next]_vars

SpecStr == InitStr /\ [][Next]_vars

(***************************************************************************)
(* The state machine of the runtime: the operations, one after the other,  *)
(* on the operands chosen at the start, every operation starting from the  *)
(* fields the last one left.  rt_op is the operation last run, rt_out its  *)
(* outcome, rt_log what ran during it.                                     *)
(***************************************************************************)
InitRt == \E in \in RuntimeInputs : Constructed(<<>>) /\ RuntimeStart(in)

\* the world an operation starts in
World == [fields |-> fields, log |-> <<>>]

\* the process is running
Alive == rt_out.kind # "crash"

\* operation name, given argument_count where it takes one, has run and
\* came to r
Ran(name, argument_count, r) ==
    /\ Alive
    /\ rt_op' = [name |-> name, argument_count |-> argument_count]
    /\ rt_out' = r.out
    /\ rt_log' = r.w.log
    /\ fields' = r.w.fields
    /\ UNCHANGED <<rt_in, lexer_vars>>

RtIsTrue == Ran("IsTrue", 0, Returns(World, IsTrue(rt_in.lhs)))

RtEqual ==
    \E ub \in UBChoices :
        Ran("Equal", 0, Equal(rt_in.lhs, rt_in.rhs, World, ub))

RtLess ==
    \E ub \in UBChoices :
        Ran("Less", 0, Less(rt_in.lhs, rt_in.rhs, World, ub))

RtNotEqual ==
    \E ub \in UBChoices :
        Ran("NotEqual", 0, NotEqual(rt_in.lhs, rt_in.rhs, World, ub))

RtGreater ==
    \E ub \in UBChoices :
        Ran("Greater", 0, Greater(rt_in.lhs, rt_in.rhs, World, ub))

RtLessOrEqual ==
    \E ub \in UBChoices :
        Ran("LessOrEqual", 0, LessOrEqual(rt_in.lhs, rt_in.rhs, World, ub))

RtGreaterOrEqual ==
    \E ub \in UBChoices :
        Ran("GreaterOrEqual", 0,
            GreaterOrEqual(rt_in.lhs, rt_in.rhs, World, ub))

RtGetMethod ==
    Ran("GetMethod", 0,
        ReturnsPointer(World, GetMethod(cls_(rt_in.self), rt_in.method)))

RtHasMethod ==
    \E argument_count \in 0..MaxArgs :
        Ran("HasMethod", argument_count,
            Returns(World,
                    HasMethod(rt_in.self, rt_in.method, argument_count)))

RtCall ==
    Ran("Call", Len(rt_in.actual_args),
        Call(rt_in.self, rt_in.method, rt_in.actual_args, World))

\* Fields()[name] = holder
RtFields ==
    \E id \in FieldOwners, name \in FieldNames, holder \in FieldValues :
        Ran("Fields", 0,
            ReturnsHolder([World EXCEPT !.fields[id] =
                               Store(@, name, holder)], holder))

NextRt ==
    \/ RtIsTrue
    \/ RtEqual
    \/ RtLess
    \/ RtNotEqual
    \/ RtGreater
    \/ RtLessOrEqual
    \/ RtGreaterOrEqual
    \/ RtGetMethod
    \/ RtHasMethod
    \/ RtCall
    \/ RtFields

SpecRt == InitRt /\ [][NextRt]_vars

TypeOK ==
    /\ pos \in 1..(Len(input) + 1)
    /\ status \in {"ok", "bad_alloc", "out_of_range"}
    /\ dedent_count_ \in Nat

(***************************************************************************)
(* Vocabulary of the properties.                                           *)
(***************************************************************************)
\* the type of the i-th token the lexer returned (the constructor's is 1)
TypeAt(i) == history[i].tok.type

Calls == Len(history)

Structural == {"Newline", "Indent", "Dedent", "Eof"}

\* the stream has no character left
EndOfInput == pos > Len(input)

\* a NextToken call can be made and will scan: no error, Eof not returned
Scanning == status = "ok" /\ current_token_.type # "Eof"

\* the first position from p on that holds no space
RECURSIVE SkipSpaces(_)
SkipSpaces(p) ==
    IF p <= Len(input) /\ input[p] = SP THEN SkipSpaces(p + 1) ELSE p

\* the position of the next character that is not a space
NextChar == SkipSpaces(pos)

\* the first position of the line position q lies in
RECURSIVE LineStart(_)
LineStart(q) ==
    IF q = 1 \/ input[q - 1] = LF THEN q ELSE LineStart(q - 1)

\* the first position of the name that ends right before position p
RECURSIVE WordStart(_)
WordStart(p) ==
    IF p > 1 /\ input[p - 1] \in Alpha \cup Digits \cup {"_"}
    THEN WordStart(p - 1) ELSE p

\* the index of the last Newline the lexer returned before its i-th token,
\* 0 when there is none
RECURSIVE LastNewlineBefore(_)
LastNewlineBefore(i) ==
    IF i = 1 THEN 0
    ELSE IF TypeAt(i - 1) = "Newline" THEN i - 1
    ELSE LastNewlineBefore(i - 1)

(***************************************************************************)
(* C1.  At end of input the remaining NextToken calls return a Newline if  *)
(* the last returned token was not one, then one Dedent per open           *)
(* indentation level, then Eof: a call made at end of input after a name,  *)
(* literal, keyword or operator returns Newline and keeps the level, a     *)
(* call made after Newline or Dedent returns Dedent while the level is     *)
(* positive and Eof once it is zero.                                       *)
(***************************************************************************)
C1_EndOfInputOrder ==
    [][(Scanning /\ EndOfInput) =>
          IF current_token_.type \notin Structural
          THEN /\ current_token_'.type = "Newline"
               /\ count_indent_' = count_indent_
          ELSE IF current_token_.type = "Indent" THEN TRUE
          ELSE IF count_indent_ > 0
          THEN /\ current_token_'.type = "Dedent"
               /\ count_indent_' = count_indent_ - 2
          ELSE current_token_'.type = "Eof"]_vars

(***************************************************************************)
(* C2.  When the lexer returns the first name of a line whose leading      *)
(* spaces are 2k (k >= 1) fewer than the indentation level at the Newline  *)
(* that ended the preceding line of code, the tokens returned since that   *)
(* Newline are exactly k Dedents and count_indent_ equals the line's       *)
(* leading spaces.                                                         *)
(***************************************************************************)
C2_DedentsBeforeLine ==
    LET n == Calls
        q == WordStart(pos)
        sp == q - LineStart(q)
        j == LastNewlineBefore(n)
        level == history[j].ci
    IN  (/\ status = "ok"
         /\ TypeAt(n) = "Id"
         /\ q < pos
         /\ \A i \in LineStart(q)..(q - 1) : input[i] = SP
         /\ j > 1
         /\ TypeAt(j - 1) = "Id"
         /\ sp < level
         /\ (level - sp) % 2 = 0)
        => /\ \A i \in (j + 1)..(n - 1) : TypeAt(i) = "Dedent"
           /\ 2 * (n - 1 - j) = level - sp
           /\ count_indent_ = sp

(***************************************************************************)
(* C3.  count_indent_ is a non-negative even integer in every state.       *)
(***************************************************************************)
C3_IndentNonNegativeEven == count_indent_ >= 0 /\ count_indent_ % 2 = 0

(***************************************************************************)
(* C4.  Every Indent the lexer returns comes right after a Newline, and    *)
(* every Dedent right after a Newline or another Dedent.                   *)
(***************************************************************************)
C4_IndentationAfterNewline ==
    \A i \in 1..Calls :
        /\ TypeAt(i) = "Indent" => i > 1 /\ TypeAt(i - 1) = "Newline"
        /\ TypeAt(i) = "Dedent" =>
               i > 1 /\ TypeAt(i - 1) \in {"Newline", "Dedent"}

(***************************************************************************)
(* C5.  The lexer never returns two Newline tokens in a row.               *)
(***************************************************************************)
C5_NoConsecutiveNewlines ==
    \A i \in 2..Calls : ~(TypeAt(i - 1) = "Newline" /\ TypeAt(i) = "Newline")

(***************************************************************************)
(* C6.  Eof is absorbing: a NextToken call made when the current token is  *)
(* Eof returns Eof and changes neither the fields of the lexer nor the     *)
(* position of the stream.                                                 *)
(***************************************************************************)
C6_EofAbsorbing ==
    [][current_token_.type = "Eof" =>
          /\ current_token_' = current_token_
          /\ status' = "ok"
          /\ UNCHANGED <<pos, count_indent_, dedent_count_, is_start_line_,
                         is_code_block_>>]_vars

\* NextToken was called after Eof had been returned
C6_Witness == current_token_.type = "Eof" /\ eof_calls > 0 /\ Calls > 2

(***************************************************************************)
(* C7.  A punctuation character that does not start one of the pairs       *)
(* ==, !=, <=, >= makes the call that consumes it return Char of that      *)
(* character.                                                              *)
(***************************************************************************)
Punctuation == {"=", "<", ">", "!", "+"}

PairAt(q) == q < Len(input) /\ input[q] \in {"=", "!", "<", ">"}
             /\ input[q + 1] = "="

C7_SingleCharToken ==
    [][(/\ Scanning
        /\ NextChar <= Len(input)
        /\ input[NextChar] \in Punctuation
        /\ ~PairAt(NextChar))
       => current_token_' = Valued("Char", <<input[NextChar]>>)]_vars

(***************************************************************************)
(* C8.  Each of the pairs ==, !=, <=, >= is consumed whole by one          *)
(* NextToken call, which returns Eq, NotEq, LessOrEq or GreaterOrEq.       *)
(***************************************************************************)
PairToken(ch) ==
    CASE ch = "=" -> Token("Eq")
      [] ch = "!" -> Token("NotEq")
      [] ch = "<" -> Token("LessOrEq")
      [] ch = ">" -> Token("GreaterOrEq")

C8_PairIsOneToken ==
    [][(Scanning /\ PairAt(NextChar))
       => /\ current_token_' = PairToken(input[NextChar])
          /\ pos' = NextChar + 2
          /\ status' = "ok"]_vars

\* a call has returned a pair token and the next call something else
C8_Witness ==
    \E i \in 2..(Calls - 1) :
        /\ TypeAt(i) \in {"Eq", "NotEq", "LessOrEq", "GreaterOrEq"}
        /\ TypeAt(i + 1) = "Id"

(***************************************************************************)
(* C9.  The value of a String token is its literal with each backslash     *)
(* and the character c after it replaced by newline, tab, carriage return, *)
(* double quote, single quote or backslash for c = n, t, r, ", ', \ and    *)
(* by c itself for any other c.                                            *)
(***************************************************************************)
Unescape(c) ==
    CASE c = "n" -> LF
      [] c = "t" -> TAB
      [] c = "r" -> CR
      [] OTHER -> c

RECURSIVE Unescaped(_)
Unescaped(raw) ==
    IF raw = <<>> THEN <<>>
    ELSE IF Head(raw) = BACKSLASH /\ Len(raw) >= 2
    THEN <<Unescape(raw[2])>> \o Unescaped(SubSeq(raw, 3, Len(raw)))
    ELSE <<Head(raw)>> \o Unescaped(Tail(raw))

C9_StringEscapes ==
    [][(/\ Scanning
        /\ pos <= Len(input)
        /\ input[pos] \in {SQUOTE, DQUOTE}
        /\ status' = "ok")
       => /\ current_token_'.type = "String"
          /\ current_token_'.value =
              Unescaped(SubSeq(input, pos + 1, pos' - 2))]_vars

(***************************************************************************)
(* C10.  A call that scans a string literal whose closing quote is missing *)
(* ends with a LexError.                                                   *)
(***************************************************************************)
\* no unescaped quote closes the literal that was opened before position i
RECURSIVE Unterminated(_, _)
Unterminated(i, quote) ==
    IF i > Len(input) THEN TRUE
    ELSE IF input[i] = quote THEN FALSE
    ELSE IF input[i] = BACKSLASH THEN Unterminated(i + 2, quote)
    ELSE Unterminated(i + 1, quote)

C10_UnterminatedStringIsLexError ==
    [][(/\ Scanning
        /\ pos <= Len(input)
        /\ input[pos] \in {SQUOTE, DQUOTE}
        /\ Unterminated(pos + 1, input[pos]))
       => status' = "LexError"]_vars

(***************************************************************************)
(* Vocabulary of the runtime properties.                                   *)
(***************************************************************************)
\* the operation last run is name
Op(name) == rt_op.name = name

\* the operation last run returned (no exception, no crash)
Succeeded == rt_out.kind = "ok"

\* the operation last run threw an exception
Failed == rt_out.kind = "error"

(***************************************************************************)
(* C11.  IsTrue never fails; it is false for an empty holder, the payload  *)
(* for a Bool, n # 0 for a Number n (so true for a negative one), "the     *)
(* text is not empty" for a String, and false for a Class and for a        *)
(* ClassInstance.                                                          *)
(***************************************************************************)
C11_IsTrue ==
    Op("IsTrue") =>
        /\ Succeeded
        /\ rt_out.value =
               CASE rt_in.lhs.kind = "None" -> FALSE
                 [] rt_in.lhs.kind = "Bool" -> rt_in.lhs.flag
                 [] rt_in.lhs.kind = "Number" -> rt_in.lhs.number # 0
                 [] rt_in.lhs.kind = "String" -> Len(rt_in.lhs.text) > 0
                 [] rt_in.lhs.kind \in {"Class", "ClassInstance"} -> FALSE

\* IsTrue has returned true for a negative Number
C11_Witness ==
    /\ Op("IsTrue")
    /\ rt_in.lhs.kind = "Number"
    /\ rt_in.lhs.number < 0
    /\ rt_out.value

\* the message of the exception the operation last run threw
What == rt_out.what

\* the error kinds of the runtime, told by the message thrown
TypeMismatch ==
    Failed /\ What \in {<<"Cannot compare objects for equality">>,
                        <<"Cannot compare objects for less">>}

NoSuchMethod == Failed /\ What[1] = "There is no method "

\* holder is a ClassInstance
IsInstance(holder) == holder.kind = "ClassInstance"

\* both holders point to a Bool, to a Number or to a String
SameVariant(lhs, rhs) ==
    lhs.kind = rhs.kind /\ lhs.kind \in {"Bool", "Number", "String"}

\* holder is an instance that has the method name of one parameter
HasDunder(holder, name) ==
    IsInstance(holder) /\ HasMethod(holder.ref, name, 1)

(***************************************************************************)
(* C12.  Equal fails with a TypeMismatch, message "Cannot compare objects  *)
(* for equality", for every pair of operands that is neither two empty     *)
(* holders, nor two Bools, two Numbers or two Strings, nor has on the left *)
(* an instance with a method __eq__ of one parameter: so in particular     *)
(* for an instance on the left whose class, with its parent, has no such   *)
(* method.                                                                 *)
(***************************************************************************)
C12_EqualTypeMismatch ==
    (/\ Op("Equal")
     /\ ~(rt_in.lhs.kind = "None" /\ rt_in.rhs.kind = "None")
     /\ ~SameVariant(rt_in.lhs, rt_in.rhs)
     /\ ~HasDunder(rt_in.lhs, "__eq__"))
        => (TypeMismatch /\ What = <<"Cannot compare objects for equality">>)

\* an outcome of dereferencing a null pointer, for the operations of the
\* properties that dereference none
AnyUB == [method \in {"__eq__", "__lt__"} |-> "crash"]

(***************************************************************************)
(* C13.  For two operands neither of which is a ClassInstance (each empty, *)
(* a Bool, a Number, a String or a Class), Equal(a, b) and Equal(b, a)     *)
(* come to the same outcome: the same bool returned, or both fail.         *)
(***************************************************************************)
C13_EqualSymmetric ==
    (Op("Equal") /\ ~IsInstance(rt_in.lhs) /\ ~IsInstance(rt_in.rhs)) =>
        LET swapped == Equal(rt_in.rhs, rt_in.lhs, World, AnyUB).out
        IN  /\ rt_out.kind = swapped.kind
            /\ Succeeded => rt_out.value = swapped.value

\* Equal has failed for a Number on the left and an empty holder on the right
C13_Witness ==
    /\ Op("Equal")
    /\ rt_in.lhs.kind = "Number"
    /\ rt_in.rhs.kind = "None"
    /\ Failed

\* Less and Equal applied to the operands in the fields as they are now
LessNow == Less(rt_in.lhs, rt_in.rhs, World, AnyUB)

EqualNow == Equal(rt_in.lhs, rt_in.rhs, World, AnyUB)

GreaterNow == Greater(rt_in.lhs, rt_in.rhs, World, AnyUB)

\* the step is a call of the comparison name
Compares(name) == rt_op'.name = name

\* the call the step makes returns value
Gives(value) == rt_out'.kind = "ok" /\ rt_out'.value = value

\* the call of a derived comparison the step makes returns what the
\* definitions of spec 4.3 make of the results l of Less and e of Equal
DerivedFrom(l, e) ==
    /\ Compares("NotEqual") => Gives(~e)
    /\ Compares("Greater") => Gives(~l /\ ~e)
    /\ Compares("LessOrEqual") => Gives(l \/ e)
    /\ Compares("GreaterOrEqual") => Gives(~l)
    /\ (Compares("Greater") /\ rt_in.lhs.kind = rt_in.rhs.kind
                            /\ rt_in.lhs.kind \in {"Number", "String"})
           => /\ l \/ e \/ rt_out'.value
              /\ ~(l /\ e) /\ ~(l /\ rt_out'.value) /\ ~(e /\ rt_out'.value)
    /\ (Compares("GreaterOrEqual") /\ rt_in.lhs.kind = rt_in.rhs.kind
                                   /\ rt_in.lhs.kind \in {"Number", "String"})
           => rt_out'.value = (GreaterNow.out.value \/ e)

(***************************************************************************)
(* C14 as stated.  For every pair of operands on which Less and Equal both *)
(* succeed, NotEqual returns !Equal, Greater returns !Less && !Equal,      *)
(* LessOrEqual returns Less || Equal and GreaterOrEqual returns !Less; for *)
(* two Numbers and for two Strings exactly one of Less, Equal, Greater is  *)
(* true and GreaterOrEqual is Greater || Equal.                            *)
(***************************************************************************)
C14_AsStated ==
    [][(LessNow.out.kind = "ok" /\ EqualNow.out.kind = "ok")
           => DerivedFrom(LessNow.out.value, EqualNow.out.value)]_vars

(***************************************************************************)
(* C14.  For every pair of operands on which Less and Equal both succeed   *)
(* and Less changes no field of an instance, NotEqual returns !Equal,      *)
(* Greater returns !Less && !Equal, LessOrEqual returns Less || Equal and  *)
(* GreaterOrEqual returns !Less; for two Numbers and for two Strings       *)
(* exactly one of Less, Equal, Greater is true and GreaterOrEqual is       *)
(* Greater || Equal.                                                       *)
(***************************************************************************)
C14_DerivedComparisons ==
    [][(/\ LessNow.out.kind = "ok"
        /\ EqualNow.out.kind = "ok"
        /\ LessNow.w.fields = fields)
           => DerivedFrom(LessNow.out.value, EqualNow.out.value)]_vars

\* Greater has returned true for an instance on the left, whose __lt__ and
\* __eq__ both returned false
C14_Witness ==
    /\ Op("Greater")
    /\ rt_in.lhs = Share("cmp")
    /\ Succeeded
    /\ rt_out.value

\* a method called name stands in the list methods at index i or later
RECURSIVE Declares(_, _, _)
Declares(methods, name, i) ==
    /\ i <= Len(methods)
    /\ methods[i].name = name \/ Declares(methods, name, i + 1)

\* the events of kind ev among those of the operation last run
RECURSIVE Events(_, _)
Events(log, ev) ==
    IF log = <<>> THEN <<>>
    ELSE (IF Head(log).ev = ev THEN <<Head(log)>> ELSE <<>>)
             \o Events(Tail(log), ev)

\* the method resolved for the receiver of the run, <<>> when there is
\* none: the first called rt_in.method among those its class declares, in
\* the order of declaration, else the first among those the parent of its
\* class declares
Resolved ==
    LET class == GetName(cls_(rt_in.self))
        own == Declared(class)
        inherited == IF ParentOf(class) = <<>> THEN <<>>
                     ELSE Declared(ParentOf(class)[1])
        from == IF Declares(own, rt_in.method, 1) THEN own ELSE inherited
    IN  IF ~Declares(from, rt_in.method, 1) THEN <<>>
        ELSE <<from[CHOOSE i \in 1..Len(from) :
                        /\ from[i].name = rt_in.method
                        /\ \A j \in 1..(i - 1) : from[j].name # rt_in.method]>>

(***************************************************************************)
(* C15.  A Call for which no method of that name is resolved for the       *)
(* class of the instance, or for which the resolved method has not as      *)
(* many formal parameters as there are arguments, fails with NoSuchMethod: *)
(* no body is executed, no scope is built, and the fields of every         *)
(* instance are what they were.                                            *)
(***************************************************************************)
C15_CallNoSuchMethod ==
    [][(/\ rt_op'.name = "Call"
        /\ \/ Resolved = <<>>
           \/ Len(Resolved[1].formal_params) # Len(rt_in.actual_args))
           => /\ rt_out'.kind = "error"
              /\ rt_out'.what[1] = "There is no method "
              /\ Events(rt_log', "Execute") = <<>>
              /\ fields' = fields]_vars

\* a Call with more arguments than the resolved method has parameters has
\* failed
C15_Witness ==
    /\ Op("Call")
    /\ Resolved # <<>>
    /\ Len(Resolved[1].formal_params) < Len(rt_in.actual_args)
    /\ NoSuchMethod

\* the scope the body ran in, when the operation last run executed one
Scope == Events(rt_log, "Execute")[1].closure

(***************************************************************************)
(* C16.  Every Call that succeeds has executed the body of the resolved    *)
(* method in a new scope whose names are exactly self and the formal       *)
(* parameters of the method, self bound to the instance called and the     *)
(* i-th formal parameter to the i-th argument.                             *)
(***************************************************************************)
C16_CallScope ==
    (Op("Call") /\ Succeeded) =>
        /\ Len(Events(rt_log, "Execute")) = 1
        /\ DOMAIN Scope =
               {"self"} \cup {Resolved[1].formal_params[i] :
                                  i \in 1..Len(Resolved[1].formal_params)}
        /\ Scope["self"] = Share(rt_in.self)
        /\ \A i \in 1..Len(Resolved[1].formal_params) :
               Scope[Resolved[1].formal_params[i]] = rt_in.actual_args[i]

(***************************************************************************)
(* Vocabulary of the properties of whole token streams.                    *)
(***************************************************************************)
\* the text in from position i on with every comment that follows code on
\* its line deleted up to its line terminator.  where tells what lies
\* before i on the line: nothing but spaces ("start"), code ("code"), the
\* start of a comment after code ("trailing"), the start of a comment that
\* fills the line ("whole")
RECURSIVE Uncommented(_, _, _)
Uncommented(in, i, where) ==
    IF i > Len(in) THEN <<>>
    ELSE IF in[i] = LF THEN <<LF>> \o Uncommented(in, i + 1, "start")
    ELSE IF where = "trailing" THEN Uncommented(in, i + 1, where)
    ELSE IF where = "whole" THEN <<in[i]>> \o Uncommented(in, i + 1, where)
    ELSE IF in[i] = HASH /\ where = "code"
    THEN Uncommented(in, i + 1, "trailing")
    ELSE IF in[i] = HASH THEN <<in[i]>> \o Uncommented(in, i + 1, "whole")
    ELSE <<in[i]>> \o Uncommented(in, i + 1,
                                  IF in[i] = SP THEN where ELSE "code")

\* the tokens a lexer in state s returns from its current one on, up to Eof
\* or to the call that fails
RECURSIVE TokensFrom(_)
TokensFrom(s) ==
    IF s.st # "ok" THEN <<>>
    ELSE IF s.cur.type = "Eof" THEN <<s.cur>>
    ELSE <<s.cur>> \o TokensFrom(ParseToken(s))

\* the token stream of the text in
TokenStream(in) == TokensFrom(Construct(in))

\* the tokens the lexer has returned
Returned_Tokens == [i \in 1..Calls |-> history[i].tok]

(***************************************************************************)
(* C17.  A comment after code on a line acts as the line terminator alone  *)
(* would: once the lexer has returned Eof, the tokens it returned are the  *)
(* token stream of the input with every such comment deleted up to, and    *)
(* not including, its line terminator, Indent and Dedent tokens included.  *)
(***************************************************************************)
C17_TrailingCommentAsNewline ==
    (status = "ok" /\ current_token_.type = "Eof" /\ eof_calls = 0) =>
        Returned_Tokens = TokenStream(Uncommented(input, 1, "start"))

\* the characters the stream has still to deliver
Remaining == Len(input) + 1 - pos

\* the call the step makes has consumed a character, or has decreased
\* count_indent_ or dedent_count_, or has set the current token to Eof
Progress ==
    \/ pos' > pos
    \/ count_indent_' < count_indent_
    \/ dedent_count_' < dedent_count_
    \/ current_token_'.type = "Eof"

\* the call the step makes, made at end of input with no indentation level
\* open and a current token other than Newline and Dedent, has set the
\* current token to Newline
NewlineAtEnd ==
    /\ EndOfInput
    /\ count_indent_ <= 0
    /\ current_token_.type \notin {"Newline", "Dedent"}
    /\ current_token_'.type = "Newline"
    /\ UNCHANGED <<pos, count_indent_, dedent_count_>>

\* a quantity every call decreases until Eof is returned: a character
\* consumed outweighs the indentation level and the dedents it can add
Variant ==
    (Len(input) + 4) * Remaining + 2 * dedent_count_ + count_indent_
        + (IF current_token_.type \in {"Newline", "Dedent", "Eof"}
           THEN 0 ELSE 1)

(***************************************************************************)
(* C19 as stated.  Every NextToken call made before Eof is returned        *)
(* consumes at least one character of the input, or decreases              *)
(* count_indent_ or dedent_count_, or sets the current token to Eof.       *)
(***************************************************************************)
C19_AsStated == [][Scanning => (status' # "ok" \/ Progress)]_vars

(***************************************************************************)
(* C19.  Every NextToken call terminates, and Eof is returned after        *)
(* finitely many calls: every call made before Eof is returned consumes at *)
(* least one character, or decreases count_indent_ or dedent_count_, or    *)
(* sets the current token to Eof, or, made at end of input with no         *)
(* indentation level open after a token other than Newline and Dedent,     *)
(* sets the current token to Newline; and every such call that does not    *)
(* return Eof decreases a quantity that is bounded from below, so the      *)
(* lexer returns no unbounded run of Dedent or Newline tokens.             *)
(***************************************************************************)
C19_Termination ==
    [][Scanning =>
          \/ status' # "ok"
          \/ /\ Progress \/ NewlineAtEnd
             /\ current_token_'.type = "Eof" \/ Variant' < Variant
             /\ Variant' >= 0 - 2 * Len(input)]_vars

\* the lexer has returned Newline at end of input without consuming a
\* character, then Eof
C19_Witness ==
    /\ Calls > 2
    /\ TypeAt(Calls) = "Eof"
    /\ TypeAt(Calls - 1) = "Newline"
    /\ TypeAt(Calls - 2) = "Id"
    /\ input[Len(input)] = "x"

(***************************************************************************)
(* C18.  GetMethod returns the first method of the name among those the    *)
(* class declares, in the order of declaration; when the class declares    *)
(* none, the first of the name its parent declares; and nullptr otherwise, *)
(* also when the parent of the parent declares one.  So a method of the    *)
(* class hides the method of the same name of the parent whatever their    *)
(* parameter counts: HasMethod is true exactly when the method so resolved *)
(* has the given number of formal parameters.                              *)
(***************************************************************************)
C18_GetMethodOneLevel ==
    /\ Op("GetMethod") => (Succeeded /\ rt_out.found = Resolved)
    /\ Op("HasMethod") =>
           /\ Succeeded
           /\ rt_out.value =
                  /\ Resolved # <<>>
                  /\ Len(Resolved[1].formal_params) = rt_op.argument_count

\* GetMethod has returned nullptr for a name that only the parent of the
\* parent of the class declares
C18_Witness ==
    /\ Op("GetMethod")
    /\ rt_out.found = <<>>
    /\ ParentOf(GetName(cls_(rt_in.self))) # <<>>
    /\ ParentOf(ParentOf(GetName(cls_(rt_in.self)))[1]) # <<>>
    /\ Declares(Declared(ParentOf(ParentOf(GetName(cls_(rt_in.self)))[1])[1]),
                rt_in.method, 1)

\* the method names ClassInstance::Call was called with during the
\* operation last run, in order
Called ==
    LET calls == Events(rt_log, "Call")
    IN  [i \in 1..Len(calls) |-> calls[i].method]

\* the bools the results of the dunder methods were taken for during the
\* operation last run, in order
Results ==
    LET results == Events(rt_log, "Result")
    IN  [i \in 1..Len(results) |-> results[i].value]

\* of the dunder methods, the operation last run called __lt__ first and
\* __eq__ next only if __lt__ had returned false
LtThenEq ==
    \/ Called = <<"__lt__">>
    \/ /\ Called = <<"__lt__", "__eq__">>
       /\ Results # <<>>
       /\ ~Results[1]

\* Less with an empty holder on either side fails before any dunder method
\* is called
LessOnEmpty ==
    (Op("Less") /\ (rt_in.lhs.kind = "None" \/ rt_in.rhs.kind = "None"))
        => (Failed /\ Called = <<>>)

(***************************************************************************)
(* C20 as stated.  With a ClassInstance on the left, Greater and           *)
(* LessOrEqual call, of the dunder methods, __lt__ first and __eq__ only   *)
(* if __lt__ returned false, and GreaterOrEqual calls __lt__ exactly once  *)
(* and never __eq__; Less with an empty holder on either side fails before *)
(* any dunder method is called.                                            *)
(***************************************************************************)
C20_AsStated ==
    /\ ((Op("Greater") \/ Op("LessOrEqual")) /\ IsInstance(rt_in.lhs))
           => (Called = <<>> \/ LtThenEq)
    /\ (Op("GreaterOrEqual") /\ IsInstance(rt_in.lhs))
           => Called = <<"__lt__">>
    /\ LessOnEmpty

(***************************************************************************)
(* C20.  With a ClassInstance on the left and a holder that is not empty   *)
(* on the right, Greater and LessOrEqual call __lt__ first and __eq__ only *)
(* if __lt__ returned false, and GreaterOrEqual calls __lt__ exactly once  *)
(* and never __eq__; with an empty holder on the right the three call no   *)
(* dunder method and fail, as Less does with an empty holder on either     *)
(* side.                                                                   *)
(***************************************************************************)
C20_DunderOrder ==
    /\ ((Op("Greater") \/ Op("LessOrEqual")) /\ IsInstance(rt_in.lhs))
           => IF rt_in.rhs.kind = "None" THEN Failed /\ Called = <<>>
              ELSE LtThenEq
    /\ (Op("GreaterOrEqual") /\ IsInstance(rt_in.lhs))
           => IF rt_in.rhs.kind = "None" THEN Failed /\ Called = <<>>
              ELSE Called = <<"__lt__">>
    /\ LessOnEmpty

\* LessOrEqual has called __lt__, which returned false, and then __eq__
C20_Witness ==
    /\ Op("LessOrEqual")
    /\ IsInstance(rt_in.lhs)
    /\ Called = <<"__lt__", "__eq__">>
    /\ Succeeded

====
